---- MODULE Spec2Model ----
(***************************************************************************)
(* Race Weekend Timing Resolver of paddock-ai-backend/f1_service.py        *)
(* (class F1DataService).                                                  *)
(*                                                                         *)
(* Time is counted in whole seconds since 2025-01-01T00:00:00.  A naive    *)
(* local date-time and a UTC instant are both such a count; the timezone   *)
(* conversion of _parse_session_time is the difference between them.       *)
(***************************************************************************)
EXTENDS Integers, Sequences, FiniteSets, TLC

VARIABLES schedule_config, now, ret, last_status, threads, _cache

vars == <<schedule_config, now, ret, last_status, threads, _cache>>

(***************************************************************************)
(* Bounds of the model.                                                    *)
(***************************************************************************)
\* The clock is read at the probed instants and up to Jitter seconds around
\* each of them.
Jitter == 1

\* The number of request threads that call the resolver at the same time
MaxThreads == 2

(***************************************************************************)
(* datetime / pytz                                                         *)
(***************************************************************************)
\* datetime.timedelta(days=, hours=, minutes=) as a number of seconds
timedelta(days, hours, minutes) ==
    days * 86400 + hours * 3600 + minutes * 60

\* Optional[datetime]: None, or a UTC instant
None == [some |-> FALSE, t |-> 0]
Some(t) == [some |-> TRUE, t |-> t]

\* The timezone identifiers pytz.timezone accepts (any other raises
\* UnknownTimeZoneError).
KnownTimezones == {"UTC", "Europe/London"}

\* Europe/London in 2025: British Summer Time (UTC+1) for the local wall
\* clock from 2025-03-30T02:00:00 up to 2025-10-26T01:00:00, GMT otherwise.
\* The wall-clock hour skipped in March and the hour repeated in October
\* are read as GMT (localize is called with its default is_dst=False).
BSTStartLocal == timedelta(88, 2, 0)
BSTEndLocal == timedelta(298, 1, 0)

\* A conversion that knows no summer time
utcoffset_no_dst(timezone_str, naive_dt) == 0

\* local_tz.localize(naive_dt).utcoffset(), in seconds
utcoffset(timezone_str, naive_dt) ==
    IF timezone_str = "Europe/London"
          /\ BSTStartLocal <= naive_dt /\ naive_dt < BSTEndLocal
    THEN timedelta(0, 1, 0)
    ELSE 0

\* A conversion that adds the offset instead of taking it away
localize_to_utc_wrong_sign(timezone_str, naive_dt) ==
    naive_dt + utcoffset(timezone_str, naive_dt)

\* local_tz.localize(naive_dt).astimezone(pytz.UTC)
localize_to_utc(timezone_str, naive_dt) ==
    naive_dt - utcoffset(timezone_str, naive_dt)

\* A session time string is [iso, naive]: iso says whether
\* datetime.fromisoformat accepts it as a naive date-time, naive is the
\* date-time it then denotes.
_parse_session_time(time_str, timezone_str) ==
    IF ~time_str.iso THEN None                       \* fromisoformat raises
    ELSE IF timezone_str \notin KnownTimezones THEN None  \* pytz.timezone raises
    ELSE Some(localize_to_utc(timezone_str, time_str.naive))

(***************************************************************************)
(* _get_race_status_with_timing                                            *)
(***************************************************************************)
\* An exception that leaves a method is the name of its class.
Exceptions == {"KeyError", "ValueError"}

\* The date-only rule with the two boundary instants given to the outer
\* statuses
date_status_inclusive(current_time, race_date) ==
    IF current_time >= race_date + timedelta(1, 0, 0) THEN "completed"
    ELSE IF current_time <= race_date - timedelta(2, 0, 0) THEN "upcoming"
    ELSE "current"

\* The date-only rule without the days of margin around the date
date_status_no_margin(current_time, race_date) ==
    IF current_time > race_date THEN "completed"
    ELSE IF current_time < race_date THEN "upcoming"
    ELSE "current"

\* lines 75-80: the date-only rule
date_status(current_time, race_date) ==
    IF current_time > race_date + timedelta(1, 0, 0) THEN "completed"
    ELSE IF current_time < race_date - timedelta(2, 0, 0) THEN "upcoming"
    ELSE "current"

\* A weekend that starts with the race, whatever practice1 says
race_weekend_start_at_race(practice1_time, race_time) == race_time.t

\* line 89
race_weekend_start(practice1_time, race_time) ==
    IF practice1_time.some THEN practice1_time.t
    ELSE race_time.t - timedelta(2, 0, 0)

\* A weekend that ends 2 hours after the race start
race_weekend_end_two_hours(race_time) == race_time.t + timedelta(0, 2, 0)

\* line 90
race_weekend_end(race_time) == race_time.t + timedelta(0, 3, 0)

\* The comparison with the outer statuses exchanged
timing_status_swapped(current_time, weekend_start, weekend_end) ==
    IF current_time > weekend_end THEN "upcoming"
    ELSE IF current_time >= weekend_start THEN "current"
    ELSE "completed"

\* lines 92-97
timing_status(current_time, weekend_start, weekend_end) ==
    IF current_time > weekend_end THEN "completed"
    ELSE IF current_time >= weekend_start THEN "current"
    ELSE "upcoming"

\* The status string, or the exception the method raises.  An event date is
\* [valid, day]: valid says whether strptime(date, '%Y-%m-%d') accepts it,
\* day is the day it then denotes.
_get_race_status_with_timing(event, current_time) ==
    IF "race" \notin DOMAIN event.sessions THEN "KeyError"
    ELSE
      LET race_time == _parse_session_time(event.sessions["race"], event.timezone)
      IN IF ~race_time.some
         THEN IF ~event.date.valid THEN "ValueError"
              ELSE date_status(current_time, timedelta(event.date.day, 0, 0))
         ELSE IF "practice1" \notin DOMAIN event.sessions THEN "KeyError"
         ELSE
           LET practice1_time ==
                 _parse_session_time(event.sessions["practice1"], event.timezone)
           IN timing_status(current_time,
                            race_weekend_start(practice1_time, race_time),
                            race_weekend_end(race_time))

(***************************************************************************)
(* _is_live_session                                                        *)
(***************************************************************************)
\* The session kinds scanned from the race backwards
live_sessions_reversed == <<"race", "qualifying", "practice3", "practice2", "practice1">>

\* line 103
live_sessions == <<"practice1", "practice2", "practice3", "qualifying", "race">>

\* The durations with a race of 120 minutes
session_durations_short_race ==
    [practice1 |-> 90, practice2 |-> 90, practice3 |-> 60,
     qualifying |-> 90, race |-> 120]

\* lines 104-110, in minutes
session_durations ==
    [practice1 |-> 90, practice2 |-> 90, practice3 |-> 60,
     qualifying |-> 90, race |-> 180]

\* A live window of 4 hours for every session
session_end_four_hours(session_name, session_start) ==
    session_start.t + timedelta(0, 4, 0)

\* line 120
session_end(session_name, session_start) ==
    session_start.t + timedelta(0, 0, session_durations[session_name])

\* lines 112-125: the loop from position i on
RECURSIVE is_live_from(_, _, _)
is_live_from(event, current_time, i) ==
    IF i > Len(live_sessions) THEN [is_live |-> FALSE, name |-> "None"]
    ELSE
      LET session_name == live_sessions[i]
      IN IF session_name \in DOMAIN event.sessions
         THEN LET session_start ==
                    _parse_session_time(event.sessions[session_name], event.timezone)
              IN IF session_start.some
                    /\ session_start.t <= current_time
                    /\ current_time <= session_end(session_name, session_start)
                 THEN [is_live |-> TRUE, name |-> session_name]
                 ELSE is_live_from(event, current_time, i + 1)
         ELSE is_live_from(event, current_time, i + 1)

_is_live_session(event, current_time) == is_live_from(event, current_time, 1)

(***************************************************************************)
(* _get_next_session                                                       *)
(***************************************************************************)
\* line 131
next_sessions == <<"practice1", "practice2", "practice3", "qualifying", "race">>

\* The condition that also takes a session starting at this very instant
is_upcoming_session_nonstrict(session_time, current_time) ==
    session_time.some /\ session_time.t >= current_time

\* line 140
is_upcoming_session(session_time, current_time) ==
    session_time.some /\ session_time.t > current_time

\* lines 133-143: the loop from position i on
RECURSIVE next_from(_, _, _)
next_from(event, current_time, i) ==
    IF i > Len(next_sessions) THEN [name |-> "None", time |-> None]
    ELSE
      LET session_name == next_sessions[i]
      IN IF session_name \in DOMAIN event.sessions
         THEN LET session_time ==
                    _parse_session_time(event.sessions[session_name], event.timezone)
              IN IF is_upcoming_session(session_time, current_time)
                 THEN [name |-> session_name, time |-> session_time]
                 ELSE next_from(event, current_time, i + 1)
         ELSE next_from(event, current_time, i + 1)

_get_next_session(event, current_time) == next_from(event, current_time, 1)

(***************************************************************************)
(* _calculate_cache_ttl_with_timing                                        *)
(***************************************************************************)
\* line 152
live_ttl(live_session) == IF live_session = "race" THEN 15 ELSE 30

\* The upcoming branch that counts exactly 7 days as within 7 days
upcoming_ttl_inclusive(next_race_time, current_time) ==
    IF next_race_time.some /\ next_race_time.t - current_time <= 7 * 24 * 3600
    THEN 300
    ELSE 1800

\* lines 161-170
upcoming_ttl(next_race_time, current_time) ==
    IF next_race_time.some /\ next_race_time.t - current_time < 7 * 24 * 3600
    THEN 300
    ELSE 1800

\* The method reads the clock three times: in _get_race_status_with_timing
\* (status_clock), in _is_live_session (live_clock) and at line 166
\* (race_clock).  The result is [exc, ttl]: the exception that left the
\* method ("none" when it returned) and the value returned.
_calculate_cache_ttl_with_timing(event, status_clock, live_clock, race_clock) ==
    LET status == _get_race_status_with_timing(event, status_clock)
        live == _is_live_session(event, live_clock)
    IN IF status \in Exceptions THEN [exc |-> status, ttl |-> 0]
       ELSE IF live.is_live THEN [exc |-> "none", ttl |-> live_ttl(live.name)]
       ELSE IF status = "current" THEN [exc |-> "none", ttl |-> 60]
       ELSE IF status = "upcoming"
            THEN [exc |-> "none",
                  ttl |-> upcoming_ttl(
                            _parse_session_time(event.sessions["race"], event.timezone),
                            race_clock)]
       ELSE [exc |-> "none", ttl |-> 86400]

(***************************************************************************)
(* The schedule store and the clock                                        *)
(***************************************************************************)
\* 2025-07-06, the day of the race weekends of the model: the 181 days of
\* January to June and 5 days of July lie before it
RaceDay == 181 + 5

Timezones == {"Europe/London", "Mars/Olympus_Mons"}

\* Every event of the schedule carries a well-formed date, that of its race
Dates == {[valid |-> TRUE, day |-> RaceDay]}

\* Local session start times: 14:00 and 15:00 on the race day
Slots == {timedelta(RaceDay, 14, 0), timedelta(RaceDay, 15, 0)}

\* A practice entered for 18:30 on the race day, after the end of the race
LateSlot == timedelta(RaceDay, 18, 30)

\* "not-a-date"
Malformed == [iso |-> FALSE, naive |-> 0]

IsoStrings == {[iso |-> TRUE, naive |-> s] : s \in Slots}

\* Marks a session kind the event has no key for
NoKey == [iso |-> FALSE, naive |-> -1]

SessionKinds == {"practice1", "practice2", "practice3", "qualifying", "race"}

\* The sessions dictionary holding the keys that a gives a value
SessionsOf(a) ==
    [k \in {x \in SessionKinds : a[x] # NoKey} |-> a[k]]

\* Events of the two-session format, in a known and in an unknown timezone
StatusEvents ==
    { [date |-> d, timezone |-> z,
       sessions |-> SessionsOf([k \in SessionKinds |->
                       IF k = "race" THEN r ELSE IF k = "practice1" THEN p ELSE NoKey])] :
        d \in Dates, z \in Timezones,
        r \in IsoStrings \cup {Malformed},
        p \in IsoStrings \cup {[iso |-> TRUE, naive |-> LateSlot], Malformed, NoKey} }

\* Events with any of the optional sessions and a well-formed race time
SessionEvents ==
    { [date |-> d, timezone |-> "Europe/London", sessions |-> SessionsOf(a)] :
        d \in Dates,
        a \in { f \in [SessionKinds -> IsoStrings \cup {Malformed, NoKey}] :
                  /\ f["race"] \in IsoStrings
                  /\ f["practice1"] # Malformed
                  /\ \A k \in {"practice2", "practice3", "qualifying"} :
                        f[k] # Malformed } }

Events == StatusEvents \cup SessionEvents

\* The instants at which the clock is read: around the starts of the
\* sessions (13:00 and 14:00 UTC on the race day), their ends and the days
\* before them, and around the days before and after the event date
SessionProbes ==
    {b + o : b \in {timedelta(RaceDay, 13, 0), timedelta(RaceDay, 14, 0)},
             o \in {timedelta(-7, 0, 0), timedelta(-2, 0, 0), 0, timedelta(0, 1, 0),
                    timedelta(0, 0, 90), timedelta(0, 3, 0)}}

DateProbes ==
    {timedelta(RaceDay, 0, 0) + o : o \in {timedelta(-2, 0, 0), 0, timedelta(1, 0, 0)}}

Instants ==
    {p + j : p \in SessionProbes \cup DateProbes, j \in (0 - Jitter)..Jitter}

NoRet ==
    [op |-> "none", exc |-> "none", event |-> 0, status |-> "", previous |-> "",
     is_live |-> FALSE, name |-> "None", time |-> None, ttl |-> 0,
     value |-> <<>>]

\* The request threads.  Each has its own frame of local variables
\* (locals); clocks lists the readings of the clock it has taken, result is
\* what its call returns.
Threads == 1..MaxThreads

NoLocals ==
    [current_time |-> 0, status |-> "",
     live |-> [is_live |-> FALSE, name |-> "None"]]

IdleThread ==
    [pc |-> "idle", method |-> "none", event |-> 0, clocks |-> <<>>,
     locals |-> NoLocals, result |-> NoRet]

NoThreads == [t \in Threads |-> IdleThread]

Init ==
    /\ schedule_config \in {<<e>> : e \in Events}
    /\ now \in Instants
    /\ ret = NoRet
    /\ last_status = [i \in DOMAIN schedule_config |-> "none"]
    /\ threads = NoThreads
    /\ _cache = <<>>

\* _get_current_utc_time, line 42: the wall clock moves on to the next instant
Tick ==
    /\ \E t \in Instants :
         /\ t > now
         /\ \A u \in Instants : u > now => t <= u
         /\ now' = t
    /\ ret' = NoRet
    /\ UNCHANGED <<schedule_config, last_status, threads, _cache>>

\* a call of _get_race_status_with_timing(schedule_config[i]); the caller
\* keeps the answer it got (last_status) and sees it next to the new one
GetRaceStatusWithTiming(i) ==
    LET status == _get_race_status_with_timing(schedule_config[i], now)
    IN /\ ret' = [NoRet EXCEPT !.op = "status", !.event = i,
                    !.exc = IF status \in Exceptions THEN status ELSE "none",
                    !.status = IF status \in Exceptions THEN "" ELSE status,
                    !.previous = last_status[i]]
       /\ last_status' = [last_status EXCEPT ![i] = status]
       /\ UNCHANGED <<schedule_config, now, threads, _cache>>

\* a call of _is_live_session(schedule_config[i])
IsLiveSession(i) ==
    LET live == _is_live_session(schedule_config[i], now)
    IN /\ ret' = [NoRet EXCEPT !.op = "live", !.event = i,
                    !.is_live = live.is_live, !.name = live.name]
       /\ UNCHANGED <<schedule_config, now, last_status, threads, _cache>>

\* a call of _get_next_session(schedule_config[i])
GetNextSession(i) ==
    LET next == _get_next_session(schedule_config[i], now)
    IN /\ ret' = [NoRet EXCEPT !.op = "next", !.event = i,
                    !.name = next.name, !.time = next.time]
       /\ UNCHANGED <<schedule_config, now, last_status, threads, _cache>>

\* a call of _calculate_cache_ttl_with_timing(schedule_config[i]), during
\* which the clock stays at one instant
CalculateCacheTTL(i) ==
    LET r == _calculate_cache_ttl_with_timing(schedule_config[i], now, now, now)
    IN /\ ret' = [NoRet EXCEPT !.op = "ttl", !.event = i,
                    !.exc = r.exc, !.ttl = r.ttl]
       /\ UNCHANGED <<schedule_config, now, last_status, threads, _cache>>

Next ==
    \/ Tick
    \/ \E i \in DOMAIN schedule_config : GetRaceStatusWithTiming(i)
    \/ \E i \in DOMAIN schedule_config : IsLiveSession(i)
    \/ \E i \in DOMAIN schedule_config : GetNextSession(i)
    \/ \E i \in DOMAIN schedule_config : CalculateCacheTTL(i)

Spec == Init /\ [][Next]_vars

(***************************************************************************)
(* Properties                                                              *)
(***************************************************************************)
Statuses == {"upcoming", "current", "completed"}

\* the event of the last call
RetEvent == schedule_config[ret.event]

\* the resolved start of session kind k of event e; None when e has no such
\* session or its time does not resolve
Start(e, k) ==
    IF k \in DOMAIN e.sessions
    THEN _parse_session_time(e.sessions[k], e.timezone)
    ELSE None

StatusReturned == ret.op = "status" /\ ret.exc = "none"

\* C1 (as stated): when the race start and the practice1 start both resolve,
\* the status is upcoming when now is before the practice1 start, current
\* when practice1 start <= now <= race start + 3 hours, and completed when
\* now is after race start + 3 hours.
C1_StatusByWindowAsStated ==
    ret.op = "status" =>
      LET race == Start(RetEvent, "race")
          practice1 == Start(RetEvent, "practice1")
      IN (race.some /\ practice1.some) =>
           /\ ret.exc = "none"
           /\ now < practice1.t => ret.status = "upcoming"
           /\ (practice1.t <= now /\ now <= race.t + 3 * 3600) => ret.status = "current"
           /\ now > race.t + 3 * 3600 => ret.status = "completed"

\* C1 (amended): when the race start and the practice1 start both resolve,
\* the status is completed when now is after race start + 3 hours; at or
\* before race start + 3 hours it is upcoming when now is before the
\* practice1 start and current when now is at or after it.
C1_StatusByWindow ==
    ret.op = "status" =>
      LET race == Start(RetEvent, "race")
          practice1 == Start(RetEvent, "practice1")
      IN (race.some /\ practice1.some) =>
           /\ ret.exc = "none"
           /\ now > race.t + 3 * 3600 => ret.status = "completed"
           /\ (now <= race.t + 3 * 3600 /\ now < practice1.t) => ret.status = "upcoming"
           /\ (now <= race.t + 3 * 3600 /\ practice1.t <= now) => ret.status = "current"

\* C1 witness: a status call at exactly race start + 3 hours, inside the
\* weekend that practice1 opened, answered current.
C1_Witness ==
    /\ StatusReturned
    /\ Start(RetEvent, "race").some
    /\ Start(RetEvent, "practice1").some
    /\ Start(RetEvent, "practice1").t < Start(RetEvent, "race").t
    /\ now = Start(RetEvent, "race").t + 3 * 3600
    /\ ret.status = "current"

\* C2: for an event with a resolvable race start and no practice1 session,
\* the status is upcoming before race start - 2 days, current from race
\* start - 2 days to race start + 3 hours (inclusive), completed after.
C2_StatusWithoutPractice ==
    ret.op = "status" =>
      LET race == Start(RetEvent, "race")
      IN (race.some /\ "practice1" \notin DOMAIN RetEvent.sessions) =>
           /\ ret.exc = "none"
           /\ now < race.t - 2 * 86400 => ret.status = "upcoming"
           /\ (race.t - 2 * 86400 <= now /\ now <= race.t + 3 * 3600)
                 => ret.status = "current"
           /\ now > race.t + 3 * 3600 => ret.status = "completed"

\* C3: when the race time does not resolve, the status follows the event's
\* calendar date: completed when now is more than 1 day after it, upcoming
\* when now is more than 2 days before it, current otherwise (the two
\* boundaries included).
C3_DateOnlyRule ==
    ret.op = "status" =>
      LET date == RetEvent.date.day * 86400
      IN (~Start(RetEvent, "race").some /\ RetEvent.date.valid) =>
           /\ ret.exc = "none"
           /\ now > date + 86400 => ret.status = "completed"
           /\ now < date - 2 * 86400 => ret.status = "upcoming"
           /\ (date - 2 * 86400 <= now /\ now <= date + 86400) => ret.status = "current"

\* C3 witness: a status call exactly 1 day after the date of an event whose
\* race time is malformed, answered current.
C3_Witness ==
    /\ StatusReturned
    /\ ~Start(RetEvent, "race").some
    /\ RetEvent.date.valid
    /\ now = RetEvent.date.day * 86400 + 86400
    /\ ret.status = "current"

Rank(status) ==
    IF status = "upcoming" THEN 1 ELSE IF status = "current" THEN 2 ELSE 3

\* C4: for an event with a resolvable race time the status a call returns is
\* never earlier in the order upcoming < current < completed than the status
\* an earlier call returned.
C4_StatusMonotonic ==
    (StatusReturned /\ ret.previous \in Statuses /\ Start(RetEvent, "race").some)
       => Rank(ret.previous) <= Rank(ret.status)

\* C4 witness: a status call answered completed for an event with a
\* resolvable race time whose previous answer was current.
C4_Witness ==
    /\ StatusReturned
    /\ Start(RetEvent, "race").some
    /\ ret.previous = "current"
    /\ ret.status = "completed"

\* the session kinds whose live window [start, start + duration] holds now
LiveDuration(k) ==
    IF k = "practice3" THEN 60 * 60
    ELSE IF k = "race" THEN 180 * 60
    ELSE 90 * 60

LiveKinds(e, t) ==
    {k \in DOMAIN e.sessions :
        /\ Start(e, k).some
        /\ Start(e, k).t <= t
        /\ t <= Start(e, k).t + LiveDuration(k)}

\* position in the order practice1, practice2, practice3, qualifying, race
KindOrder(k) ==
    IF k = "practice1" THEN 1 ELSE IF k = "practice2" THEN 2
    ELSE IF k = "practice3" THEN 3 ELSE IF k = "qualifying" THEN 4 ELSE 5

\* the decision table of the cache lifetime, first matching row first
TableTTL(e, t) ==
    LET status == _get_race_status_with_timing(e, t)
        live == _is_live_session(e, t)
        race == Start(e, "race")
    IN IF live.is_live /\ live.name = "race" THEN 15
       ELSE IF live.is_live THEN 30
       ELSE IF status = "current" THEN 60
       ELSE IF status = "upcoming" /\ race.some /\ race.t - t < 7 * 86400 THEN 300
       ELSE IF status = "upcoming" THEN 1800
       ELSE 86400

\* C5: the cache lifetime is the value of the decision table, for every
\* event and every now.
C5_TTLTable ==
    ret.op = "ttl" =>
      /\ ret.exc = "none"
      /\ ret.ttl = TableTTL(RetEvent, now)

\* C6 (as stated): for an event with status upcoming the cache lifetime is
\* 300 when the race start resolves and is less than 604800 seconds after
\* now, and 1800 when it is 604800 seconds or more after now or does not
\* resolve.
C6_UpcomingTTLAsStated ==
    (ret.op = "ttl" /\ ret.exc = "none"
       /\ _get_race_status_with_timing(RetEvent, now) = "upcoming") =>
      LET race == Start(RetEvent, "race")
      IN ret.ttl = IF race.some /\ race.t - now < 604800 THEN 300 ELSE 1800

\* C6 (amended): for an event with status upcoming and no live session the
\* cache lifetime is 300 when the race start resolves and is less than
\* 604800 seconds after now, and 1800 when it is 604800 seconds or more
\* after now or does not resolve.
C6_UpcomingTTL ==
    (ret.op = "ttl" /\ ret.exc = "none"
       /\ _get_race_status_with_timing(RetEvent, now) = "upcoming"
       /\ LiveKinds(RetEvent, now) = {}) =>
      LET race == Start(RetEvent, "race")
      IN ret.ttl = IF race.some /\ race.t - now < 604800 THEN 300 ELSE 1800

\* C6 witness: the cache lifetime of an upcoming event asked exactly 7 days
\* before its race start is 1800.
C6_Witness ==
    /\ ret.op = "ttl"
    /\ ret.exc = "none"
    /\ _get_race_status_with_timing(RetEvent, now) = "upcoming"
    /\ LiveKinds(RetEvent, now) = {}
    /\ Start(RetEvent, "race").some
    /\ Start(RetEvent, "race").t - now = 604800
    /\ ret.ttl = 1800

\* C7: is_live is true exactly when some session defined on the event has a
\* resolvable start with start <= now <= start + duration (90 minutes for
\* practice1, practice2 and qualifying, 60 for practice3, 180 for race);
\* otherwise the result is (false, none).
C7_LiveIffInWindow ==
    ret.op = "live" =>
      /\ ret.is_live <=> LiveKinds(RetEvent, now) # {}
      /\ ~ret.is_live => ret.name = "None"

\* C7 witness: a call at exactly race start + 180 minutes answered live.
C7_Witness ==
    /\ ret.op = "live"
    /\ ret.is_live
    /\ Start(RetEvent, "race").some
    /\ now = Start(RetEvent, "race").t + 180 * 60
    /\ LiveKinds(RetEvent, now) = {"race"}

\* C8: the one session kind reported live is defined on the event, and it is
\* the first in the order practice1, practice2, practice3, qualifying, race
\* of the sessions whose live window holds now.
C8_FirstLiveInOrder ==
    (ret.op = "live" /\ ret.is_live) =>
      /\ ret.name \in DOMAIN RetEvent.sessions
      /\ ret.name \in LiveKinds(RetEvent, now)
      /\ \A k \in LiveKinds(RetEvent, now) : KindOrder(ret.name) <= KindOrder(k)

\* C8 witness: three sessions are live at once and the one reported is
\* neither practice1 nor the last of them.
C8_Witness ==
    /\ ret.op = "live"
    /\ ret.is_live
    /\ Cardinality(LiveKinds(RetEvent, now)) >= 3
    /\ ret.name # "practice1"
    /\ "practice1" \in DOMAIN RetEvent.sessions

\* the defined sessions whose resolved start is strictly after t
LaterKinds(e, t) ==
    {k \in DOMAIN e.sessions : Start(e, k).some /\ Start(e, k).t > t}

\* C9: next_session is the first session, in the order practice1, practice2,
\* practice3, qualifying, race, that is defined on the event and starts
\* strictly after now, with that start as a UTC instant; it is none when
\* there is no such session.
C9_NextSession ==
    ret.op = "next" =>
      IF LaterKinds(RetEvent, now) = {}
      THEN ret.name = "None" /\ ~ret.time.some
      ELSE /\ ret.name \in LaterKinds(RetEvent, now)
           /\ \A k \in LaterKinds(RetEvent, now) : KindOrder(ret.name) <= KindOrder(k)
           /\ ret.time = Start(RetEvent, ret.name)

\* C9 witness: a call at the very start of practice1 passes over it and
\* answers a later kind with its start.
C9_Witness ==
    /\ ret.op = "next"
    /\ Start(RetEvent, "practice1").some
    /\ now = Start(RetEvent, "practice1").t
    /\ ret.name \in {"practice2", "practice3", "qualifying"}
    /\ ret.time.some
    /\ ret.time.t > now

\* C10: a status call always returns one of upcoming, current, completed;
\* no exception reaches the caller.
C10_StatusNeverFails ==
    ret.op = "status" => (ret.exc = "none" /\ ret.status \in Statuses)

\* Scenario A: the race at 2025-07-06T15:00:00 in Europe/London and no
\* practice session
ScenarioA ==
    [date |-> [valid |-> TRUE, day |-> RaceDay], timezone |-> "Europe/London",
     sessions |-> SessionsOf([k \in SessionKinds |->
                     IF k = "race" THEN [iso |-> TRUE, naive |-> timedelta(RaceDay, 15, 0)]
                     ELSE NoKey])]

\* C11: for the event of Scenario A at now = 2025-07-06T14:00:00Z the status
\* is current, the live session is the race and the cache lifetime is 15.
C11_ScenarioA ==
    (ret.op \in {"status", "live", "ttl"} /\ RetEvent = ScenarioA
       /\ now = timedelta(RaceDay, 14, 0)) =>
      /\ ret.op = "status" => (ret.exc = "none" /\ ret.status = "current")
      /\ ret.op = "live" => (ret.is_live /\ ret.name = "race")
      /\ ret.op = "ttl" => (ret.exc = "none" /\ ret.ttl = 15)

\* C12: for an event whose race time string is malformed, a status call at
\* any instant of the event's calendar date answers current.
C12_ScenarioD ==
    (ret.op = "status" /\ RetEvent.sessions["race"] = Malformed
       /\ RetEvent.date.valid
       /\ RetEvent.date.day * 86400 <= now
       /\ now < (RetEvent.date.day + 1) * 86400) =>
      (ret.exc = "none" /\ ret.status = "current")

\* C12 witness: a status call at 13:00 UTC of the date of an event whose race
\* time string is malformed, answered current.
C12_Witness ==
    /\ StatusReturned
    /\ RetEvent.sessions["race"] = Malformed
    /\ now = RetEvent.date.day * 86400 + 13 * 3600
    /\ ret.status = "current"

(***************************************************************************)
(* Scenario E: qualifying on the day before the race                       *)
(***************************************************************************)
ScenarioETimezones == {"Europe/London", "UTC"}

\* Qualifying at 14:00 on the day before the race, the race at 15:00, and
\* any of the practices at their places before qualifying
ScenarioEEvents ==
    { [date |-> [valid |-> TRUE, day |-> RaceDay], timezone |-> z,
       sessions |-> SessionsOf([k \in SessionKinds |->
          IF k = "race" THEN [iso |-> TRUE, naive |-> timedelta(RaceDay, 15, 0)]
          ELSE IF k = "qualifying"
               THEN [iso |-> TRUE, naive |-> timedelta(RaceDay - 1, 14, 0)]
          ELSE IF k \notin given THEN NoKey
          ELSE IF k = "practice1"
               THEN [iso |-> TRUE, naive |-> timedelta(RaceDay - 2, 12, 30)]
          ELSE IF k = "practice2"
               THEN [iso |-> TRUE, naive |-> timedelta(RaceDay - 2, 16, 0)]
          ELSE [iso |-> TRUE, naive |-> timedelta(RaceDay - 1, 11, 30)]])] :
        z \in ScenarioETimezones,
        given \in SUBSET {"practice1", "practice2", "practice3"} }

\* The UTC instant of a wall-clock time of these July days
JulyUTC(timezone_str, day, hour) ==
    IF timezone_str = "Europe/London" THEN timedelta(day, hour - 1, 0)
    ELSE timedelta(day, hour, 0)

\* The clock around qualifying: its start, 30 minutes into it, its end
ScenarioEInstants ==
    {JulyUTC(z, RaceDay - 1, 14) + m * 60 + j :
        z \in ScenarioETimezones, m \in {0, 30, 90}, j \in (0 - Jitter)..Jitter}

InitScenarioE ==
    /\ schedule_config \in {<<e>> : e \in ScenarioEEvents}
    /\ now \in ScenarioEInstants
    /\ ret = NoRet
    /\ last_status = [i \in DOMAIN schedule_config |-> "none"]
    /\ threads = NoThreads
    /\ _cache = <<>>

SpecScenarioE == InitScenarioE /\ [][Next]_vars

\* C13: for an event with qualifying at 14:00 on the day before the race and
\* the race at 15:00, at now = qualifying start + 30 minutes the live
\* session is (true, qualifying) and the next session is the race with the
\* UTC instant of its start.
C13_ScenarioE ==
    (ret.op \in {"live", "next"} /\ RetEvent \in ScenarioEEvents
       /\ now = JulyUTC(RetEvent.timezone, RaceDay - 1, 14) + 30 * 60) =>
      /\ ret.op = "live" => (ret.is_live /\ ret.name = "qualifying")
      /\ ret.op = "next" =>
           /\ ret.name = "race"
           /\ ret.time = Some(JulyUTC(RetEvent.timezone, RaceDay, 15))

\* C13 witness: 30 minutes into qualifying of a London weekend with all
\* three practices, the next session asked for is the race at 14:00 UTC.
C13_Witness ==
    /\ ret.op = "next"
    /\ RetEvent \in ScenarioEEvents
    /\ RetEvent.timezone = "Europe/London"
    /\ DOMAIN RetEvent.sessions = SessionKinds
    /\ now = timedelta(RaceDay - 1, 13, 30)
    /\ ret.name = "race"
    /\ ret.time = Some(timedelta(RaceDay, 14, 0))

(***************************************************************************)
(* The schedule-level methods                                              *)
(***************************************************************************)
\* datetime.isoformat() of a UTC instant: the date and time followed by the
\* offset +00:00
isoformat(t) == [iso |-> TRUE, naive |-> t, offset |-> "+00:00"]

\* A dict object the method holds: fresh says that it is a new object and
\* not the one of the schedule store.
\* The enhanced event that is the stored event itself
dict_alias(d) == [fresh |-> FALSE, dict |-> d]

\* event.copy(), lines 180, 231 and 255
dict_copy(d) == [fresh |-> TRUE, dict |-> d]

\* obj[key] = value
set_item(obj, key, value) == [obj EXCEPT !.dict = (key :> value) @@ @]

\* The store after a method that worked on obj for event i: a write to an
\* object that is not fresh is a write to the stored event
store_after(config, i, obj) ==
    IF obj.fresh THEN config ELSE [config EXCEPT ![i] = obj.dict]

\* lines 180-198 for one event; clocks holds the six readings of the clock:
\* status (183), live (186), next (192) and the three of the TTL (198).
\* The result is [exc, obj]: the exception raised ("none" when the lines
\* complete) and the enhanced event as far as it got.
enhanced_event(event, clocks) ==
    LET status == _get_race_status_with_timing(event, clocks.status)
        live == _is_live_session(event, clocks.live)
        next == _get_next_session(event, clocks.next)
        ttl == _calculate_cache_ttl_with_timing(
                   event, clocks.ttl_status, clocks.ttl_live, clocks.ttl_race)
        e0 == dict_copy(event)
        e1 == set_item(set_item(e0, "status", status), "is_live", live.is_live)
        e2 == IF live.is_live THEN set_item(e1, "live_session", live.name) ELSE e1
        e3 == IF next.name # "None" /\ next.time.some
              THEN set_item(set_item(e2, "next_session", next.name),
                            "next_session_time", isoformat(next.time.t))
              ELSE e2
    IN IF status \in Exceptions THEN [exc |-> status, obj |-> e0]
       ELSE IF ttl.exc # "none" THEN [exc |-> ttl.exc, obj |-> e3]
       ELSE [exc |-> "none", obj |-> set_item(e3, "cache_ttl", ttl.ttl)]

Min(S) == CHOOSE x \in S : \A y \in S : x <= y
Max(S) == CHOOSE x \in S : \A y \in S : y <= x

\* get_schedule_with_timing, lines 175-202.  The result is [exc, value,
\* store]: the exception raised, the list returned and the schedule store
\* after the call.  The loop stops at the first event that raises.
get_schedule_with_timing(config, clocks) ==
    LET r == [i \in DOMAIN config |-> enhanced_event(config[i], clocks)]
        raising == {i \in DOMAIN config : r[i].exc # "none"}
        reached == {i \in DOMAIN config : \A j \in raising : i <= j}
        store == [i \in DOMAIN config |->
                    IF i \in reached /\ ~r[i].obj.fresh THEN r[i].obj.dict
                    ELSE config[i]]
    IN IF raising = {}
       THEN [exc |-> "none", value |-> [i \in DOMAIN config |-> r[i].obj.dict],
             store |-> store]
       ELSE [exc |-> r[Min(raising)].exc, value |-> <<>>, store |-> store]

\* the resolved race start of an event, lines 211-214 and 249-252
race_time_of(event) == _parse_session_time(event.sessions["race"], event.timezone)

\* abs((current_time - race_time).total_seconds()), line 218
time_diff(current_time, race_time) ==
    IF current_time >= race_time.t THEN current_time - race_time.t
    ELSE race_time.t - current_time

\* get_current_race_info, lines 204-242, with the clock at one instant.  The
\* result is [exc, value, store]; value is the dict returned, the empty
\* dict when there is no current race.
get_current_race_info(config, current_time) ==
    LET within == {i \in DOMAIN config :
                      /\ race_time_of(config[i]).some
                      /\ time_diff(current_time, race_time_of(config[i])) < 24 * 3600}
        status(i) == _get_race_status_with_timing(config[i], current_time)
        \* lines 225-228: from the last event back to the first that is
        \* completed or raises
        stops == {i \in DOMAIN config : status(i) \in Exceptions \cup {"completed"}}
    IN IF within = {} /\ stops # {} /\ status(Max(stops)) \in Exceptions
       THEN [exc |-> status(Max(stops)), value |-> <<>>, store |-> config]
       ELSE IF within = {} /\ stops = {}
       THEN [exc |-> "none", value |-> <<>>, store |-> config]
       ELSE
         LET i == IF within # {} THEN Min(within) ELSE Max(stops)
             live == _is_live_session(config[i], current_time)
             e0 == dict_copy(config[i])
             e1 == set_item(set_item(e0, "status", status(i)), "is_live", live.is_live)
             e2 == IF live.is_live THEN set_item(e1, "live_session", live.name) ELSE e1
         IN IF status(i) \in Exceptions
            THEN [exc |-> status(i), value |-> <<>>, store |-> config]
            ELSE [exc |-> "none", value |-> e2.dict, store |-> store_after(config, i, e2)]

\* get_next_race_info, lines 244-274, with the clock at one instant
get_next_race_info(config, current_time) ==
    LET later == {i \in DOMAIN config :
                     /\ race_time_of(config[i]).some
                     /\ race_time_of(config[i]).t > current_time}
    IN IF later = {} THEN [exc |-> "none", value |-> <<>>, store |-> config]
       ELSE
         LET i == Min(later)
             status == _get_race_status_with_timing(config[i], current_time)
             time_to_race == race_time_of(config[i]).t - current_time
             next == _get_next_session(config[i], current_time)
             e0 == dict_copy(config[i])
             e1 == set_item(set_item(set_item(e0, "status", status),
                                     "countdown_seconds", time_to_race),
                            "countdown_days", time_to_race \div 86400)
             e2 == IF next.name # "None" /\ next.time.some
                   THEN set_item(set_item(set_item(e1, "next_session", next.name),
                                          "next_session_time", isoformat(next.time.t)),
                                 "next_session_countdown", next.time.t - current_time)
                   ELSE e1
         IN IF status \in Exceptions
            THEN [exc |-> status, value |-> <<>>, store |-> config]
            ELSE [exc |-> "none", value |-> e2.dict, store |-> store_after(config, i, e2)]

\* The methods that class F1DataService defines, lines 15-565
F1DataServiceMethods ==
    {"__init__", "_load_schedule_config", "_get_current_utc_time",
     "_parse_session_time", "_get_race_status_with_timing", "_is_live_session",
     "_get_next_session", "_calculate_cache_ttl_with_timing",
     "get_schedule_with_timing", "get_current_race_info", "get_next_race_info",
     "get_2025_schedule", "get_next_race", "_get_live_f1_data",
     "_get_fallback_data", "get_latest_race_results", "get_current_standings",
     "get_standings", "get_results", "get_basic_f1_data",
     "get_championship_insights"}

\* get_2025_schedule, lines 276-308.  The value is the dict returned: the
\* season record, or the record with the one key error that the except
\* clause of line 306 makes of any exception.  The entries carry the round
\* as the position in the schedule; name, location, country and circuit are
\* copied and left out here.  self._get_current_round (line 296) is looked
\* up among the methods of the class.
get_2025_schedule(config, current_time) ==
    LET status(i) == _get_race_status_with_timing(config[i], current_time)
        raising == {i \in DOMAIN config : status(i) \in Exceptions}
        events == [i \in DOMAIN config |->
                     [round |-> i, date |-> config[i].date,
                      is_upcoming |-> (status(i) = "upcoming"),
                      status |-> status(i)]]
    IN IF raising # {} THEN [error |-> status(Min(raising))]
       ELSE IF "_get_current_round" \notin F1DataServiceMethods
       THEN [error |-> "AttributeError"]
       ELSE [events |-> events, total_rounds |-> Len(events),
             \* the source has no body that says what the call returns
             current_round |-> CHOOSE n \in 0..Len(events) : TRUE]

\* The schedules hold at most MaxEvents events
MaxEvents == 2

\* The weekends of the schedules: one a week before the race day and one on
\* it, each either with practice1 two days and qualifying one day before
\* the race at 15:00, or with the race alone, or with a race time that is
\* malformed
SessionsOfWeekend(d, format) ==
    IF format = "full"
    THEN [practice1 |-> [iso |-> TRUE, naive |-> timedelta(d - 2, 12, 30)],
          qualifying |-> [iso |-> TRUE, naive |-> timedelta(d - 1, 14, 0)],
          race |-> [iso |-> TRUE, naive |-> timedelta(d, 15, 0)]]
    ELSE IF format = "race only"
    THEN [race |-> [iso |-> TRUE, naive |-> timedelta(d, 15, 0)]]
    ELSE [practice1 |-> [iso |-> TRUE, naive |-> timedelta(d - 2, 12, 30)],
          race |-> Malformed]

ServiceEvents ==
    { [date |-> [valid |-> TRUE, day |-> d], timezone |-> "Europe/London",
       sessions |-> SessionsOfWeekend(d, format)] :
        d \in {RaceDay - 7, RaceDay},
        format \in {"full", "race only", "malformed race"} }

\* The schedules: any list of at most MaxEvents of these events, the empty
\* one being the fallback of line 36
Schedules ==
    UNION {[1..n -> ServiceEvents] : n \in 0..MaxEvents}

InitService ==
    /\ schedule_config \in Schedules
    /\ now \in Instants
    /\ ret = NoRet
    /\ last_status = [i \in DOMAIN schedule_config |-> "none"]
    /\ threads = NoThreads
    /\ _cache = <<>>

\* the six readings of a clock that stays at t
SteadyClock(t) ==
    [status |-> t, live |-> t, next |-> t,
     ttl_status |-> t, ttl_live |-> t, ttl_race |-> t]

\* a call of get_schedule_with_timing, during which the clock stays at one
\* instant
GetScheduleWithTiming ==
    LET r == get_schedule_with_timing(schedule_config, SteadyClock(now))
    IN /\ ret' = [NoRet EXCEPT !.op = "schedule_with_timing",
                    !.exc = r.exc, !.value = r.value]
       /\ schedule_config' = r.store
       /\ UNCHANGED <<now, last_status, threads, _cache>>

\* a call of get_current_race_info
GetCurrentRaceInfo ==
    LET r == get_current_race_info(schedule_config, now)
    IN /\ ret' = [NoRet EXCEPT !.op = "current_race_info",
                    !.exc = r.exc, !.value = r.value]
       /\ schedule_config' = r.store
       /\ UNCHANGED <<now, last_status, threads, _cache>>

\* a call of get_next_race_info
GetNextRaceInfo ==
    LET r == get_next_race_info(schedule_config, now)
    IN /\ ret' = [NoRet EXCEPT !.op = "next_race_info",
                    !.exc = r.exc, !.value = r.value]
       /\ schedule_config' = r.store
       /\ UNCHANGED <<now, last_status, threads, _cache>>

\* a call of get_2025_schedule
Get2025Schedule ==
    /\ ret' = [NoRet EXCEPT !.op = "2025_schedule",
                 !.value = get_2025_schedule(schedule_config, now)]
    /\ UNCHANGED <<schedule_config, now, last_status, threads, _cache>>

NextService ==
    \/ Tick
    \/ GetScheduleWithTiming
    \/ GetCurrentRaceInfo
    \/ GetNextRaceInfo
    \/ Get2025Schedule

SpecService == InitService /\ [][NextService]_vars

\* the keys that the schedule store gives an event
EventKeys == {"date", "timezone", "sessions"}

\* C14: get_schedule_with_timing emits one record per event, in schedule
\* order, that carries status, is_live and cache_ttl; live_session is
\* present exactly when is_live is true; next_session and
\* next_session_time are both present or both absent.
C14_ScheduleRecords ==
    ret.op = "schedule_with_timing" =>
      /\ ret.exc = "none"
      /\ Len(ret.value) = Len(schedule_config)
      /\ \A i \in DOMAIN schedule_config :
           LET rec == ret.value[i]
           IN /\ \A k \in EventKeys : rec[k] = schedule_config[i][k]
              /\ {"status", "is_live", "cache_ttl"} \subseteq DOMAIN rec
              /\ "live_session" \in DOMAIN rec <=> rec["is_live"]
              /\ "next_session" \in DOMAIN rec <=> "next_session_time" \in DOMAIN rec

\* C15: no call of get_schedule_with_timing, get_current_race_info or
\* get_next_race_info changes an event of the schedule store.
C15_StoreUnchanged == [][schedule_config' = schedule_config]_vars

\* C15 witness: a call has returned a record that carries derived fields
\* while the stored event it was made from carries none.
C15_Witness ==
    /\ ret.op \in {"schedule_with_timing", "current_race_info", "next_race_info"}
    /\ ret.exc = "none"
    /\ \E i \in DOMAIN schedule_config :
         LET rec == IF ret.op = "schedule_with_timing" THEN ret.value[i] ELSE ret.value
         IN /\ "status" \in DOMAIN rec
            /\ \A k \in EventKeys : rec[k] = schedule_config[i][k]
            /\ DOMAIN schedule_config[i] = EventKeys

\* C19: for a well-formed schedule get_2025_schedule returns the season
\* record and not an error record: one entry per event in schedule order
\* with the calculated status, is_upcoming true exactly when the status is
\* upcoming, total_rounds the number of events, and a current_round.
C19_SeasonRecord ==
    (/\ ret.op = "2025_schedule"
     /\ \A i \in DOMAIN schedule_config :
          _get_race_status_with_timing(schedule_config[i], now) \in Statuses) =>
      /\ "error" \notin DOMAIN ret.value
      /\ {"events", "total_rounds", "current_round"} \subseteq DOMAIN ret.value
      /\ ret.value["total_rounds"] = Len(schedule_config)
      /\ Len(ret.value["events"]) = Len(schedule_config)
      /\ \A i \in DOMAIN schedule_config :
           /\ ret.value["events"][i].status =
                 _get_race_status_with_timing(schedule_config[i], now)
           /\ ret.value["events"][i].is_upcoming
                 <=> ret.value["events"][i].status = "upcoming"

(***************************************************************************)
(* Session time resolution: _parse_session_time and the way back           *)
(***************************************************************************)
\* British Summer Time on the UTC scale: from 2025-03-30T01:00:00Z up to
\* 2025-10-26T01:00:00Z.
BSTStartUTC == timedelta(88, 1, 0)
BSTEndUTC == timedelta(298, 1, 0)

\* utc_dt.astimezone(local_tz).replace(tzinfo=None): the wall clock of the
\* zone at a UTC instant
astimezone_local(timezone_str, utc_dt) ==
    IF timezone_str = "Europe/London"
          /\ BSTStartUTC <= utc_dt /\ utc_dt < BSTEndUTC
    THEN utc_dt + timedelta(0, 1, 0)
    ELSE utc_dt

\* The days whose session times are resolved: the day summer time starts,
\* a day of the season, the day summer time ends.
ResolveDays == {88, RaceDay, 298}

\* Naive local times around the two changes of the clock and in between
NaiveTimes ==
    {timedelta(d, h, m) + j :
        d \in ResolveDays, h \in 0..3, m \in {0, 30}, j \in 0..Jitter}

ResolveTimezones == KnownTimezones \cup {"Mars/Olympus_Mons"}

\* Events with a race and a qualifying session
ResolveEvents ==
    {[date |-> [valid |-> TRUE, day |-> RaceDay], timezone |-> z,
      sessions |-> [k \in {"qualifying", "race"} |->
                      IF k = "race" THEN r
                      ELSE [iso |-> TRUE, naive |-> q]]] :
        z \in ResolveTimezones,
        r \in {[iso |-> TRUE, naive |-> t] : t \in NaiveTimes} \cup {Malformed},
        q \in {timedelta(88, 1, 30), timedelta(RaceDay - 1, 14, 0)}}

InitResolve ==
    /\ schedule_config \in {<<e>> : e \in ResolveEvents}
    /\ now = timedelta(RaceDay, 14, 0)
    /\ ret = NoRet
    /\ last_status = [i \in DOMAIN schedule_config |-> "none"]
    /\ threads = NoThreads
    /\ _cache = <<>>

\* _parse_session_time(event['sessions'][k], event['timezone'])
ParseSessionTime(i, k) ==
    /\ ret' = [NoRet EXCEPT !.op = "parse", !.event = i, !.name = k,
                 !.time = _parse_session_time(schedule_config[i].sessions[k],
                                              schedule_config[i].timezone)]
    /\ UNCHANGED <<schedule_config, now, last_status, threads, _cache>>

NextResolve ==
    \E i \in DOMAIN schedule_config :
       \E k \in DOMAIN schedule_config[i].sessions : ParseSessionTime(i, k)

SpecResolve == InitResolve /\ [][NextResolve]_vars

\* the time string a parse call was given
ParsedString == RetEvent.sessions[ret.name]

\* A naive local time that the wall clock of the zone never shows: the hour
\* skipped when summer time starts
SkippedHour(timezone_str, naive_dt) ==
    /\ timezone_str = "Europe/London"
    /\ BSTStartLocal - timedelta(0, 1, 0) <= naive_dt
    /\ naive_dt < BSTStartLocal

\* C16 as stated: for every naive local time and every valid timezone, the
\* UTC instant of _parse_session_time converted back into the timezone is
\* the naive local time.
C16_RoundTripAsStated ==
    (ret.op = "parse" /\ ParsedString.iso /\ RetEvent.timezone \in KnownTimezones) =>
      /\ ret.time.some
      /\ astimezone_local(RetEvent.timezone, ret.time.t) = ParsedString.naive

\* C16: for every valid timezone and every naive local time that the wall
\* clock of the timezone shows, the UTC instant of _parse_session_time
\* converted back into the timezone is the naive local time; an hour that
\* the clock repeats comes back unchanged as well.
C16_RoundTrip ==
    (/\ ret.op = "parse" /\ ParsedString.iso
     /\ RetEvent.timezone \in KnownTimezones
     /\ ~SkippedHour(RetEvent.timezone, ParsedString.naive)) =>
      /\ ret.time.some
      /\ astimezone_local(RetEvent.timezone, ret.time.t) = ParsedString.naive

\* C16 witness: a summer time of Europe/London was resolved to a UTC
\* instant one hour earlier and comes back as the same local time.
C16_Witness ==
    /\ ret.op = "parse" /\ ParsedString.iso
    /\ RetEvent.timezone = "Europe/London"
    /\ ret.time.some
    /\ ret.time.t = ParsedString.naive - timedelta(0, 1, 0)
    /\ astimezone_local(RetEvent.timezone, ret.time.t) = ParsedString.naive

(***************************************************************************)
(* Request threads: the resolver methods called at the same time           *)
(***************************************************************************)
\* Local variables kept in one place for all threads, as an attribute of
\* the service object would be
frame_shared(t) == 1

\* The frame that holds the local variables of the call thread t makes:
\* current_time, status, is_live and live_session are local names of the
\* methods, so every call has its own.
frame_of(t) == t

\* the local variables thread t reads
locals_of(t) == threads[frame_of(t)].locals

\* The events the threads ask about: a full weekend and one with a race
\* only
ThreadEvents ==
    {[date |-> [valid |-> TRUE, day |-> RaceDay], timezone |-> "Europe/London",
      sessions |-> SessionsOfWeekend(RaceDay, format)] :
        format \in {"full", "race only"}}

\* The clock readings: before the weekend, during qualifying, during the
\* race, after the weekend
ThreadInstants ==
    {timedelta(RaceDay - 3, 12, 0), timedelta(RaceDay - 1, 13, 30),
     timedelta(RaceDay, 14, 30), timedelta(RaceDay + 1, 0, 0)}

InitThreads ==
    /\ schedule_config \in {<<e>> : e \in ThreadEvents}
    /\ now \in ThreadInstants
    /\ ret = NoRet
    /\ last_status = [i \in DOMAIN schedule_config |-> "none"]
    /\ threads = NoThreads
    /\ _cache = <<>>

\* the wall clock moves on while calls are in progress
ClockAdvance ==
    /\ \E t \in ThreadInstants :
         /\ t > now
         /\ \A u \in ThreadInstants : u > now => t <= u
         /\ now' = t
    /\ UNCHANGED <<schedule_config, ret, last_status, threads, _cache>>

\* lines 62, 101, 127: thread t enters _get_race_status_with_timing,
\* _is_live_session or _get_next_session for event i and reads the clock
\* into its local current_time
EnterResolver(t, method, i) ==
    /\ threads[t].pc = "idle"
    /\ threads' = [threads EXCEPT
                     ![frame_of(t)].locals.current_time = now,
                     ![t].pc = method, ![t].method = method, ![t].event = i,
                     ![t].clocks = <<now>>]
    /\ UNCHANGED <<schedule_config, now, ret, last_status, _cache>>

\* lines 64-97, 103-123, 129-141: the rest of the method, which works on
\* the event and on current_time
ReturnResolver(t) ==
    LET event == schedule_config[threads[t].event]
        current_time == locals_of(t).current_time
        status == _get_race_status_with_timing(event, current_time)
        live == _is_live_session(event, current_time)
        next == _get_next_session(event, current_time)
    IN /\ threads[t].pc \in {"status", "live", "next"}
       /\ threads' = [threads EXCEPT ![t].pc = "done", ![t].result =
            IF threads[t].pc = "status"
            THEN [NoRet EXCEPT !.op = "status", !.event = threads[t].event,
                    !.exc = IF status \in Exceptions THEN status ELSE "none",
                    !.status = IF status \in Exceptions THEN "" ELSE status]
            ELSE IF threads[t].pc = "live"
            THEN [NoRet EXCEPT !.op = "live", !.event = threads[t].event,
                    !.is_live = live.is_live, !.name = live.name]
            ELSE [NoRet EXCEPT !.op = "next", !.event = threads[t].event,
                    !.name = next.name, !.time = next.time]]
       /\ UNCHANGED <<schedule_config, now, ret, last_status, _cache>>

\* line 145: thread t enters _calculate_cache_ttl_with_timing for event i
\* and keeps the answer of _get_race_status_with_timing in its local
\* status; an exception of that call ends the method
TTLStatus(t, i) ==
    LET status == _get_race_status_with_timing(schedule_config[i], now)
    IN /\ threads[t].pc = "idle"
       /\ threads' = [threads EXCEPT
                        ![frame_of(t)].locals.status = status,
                        ![t].method = "ttl", ![t].event = i,
                        ![t].clocks = <<now>>,
                        ![t].pc = IF status \in Exceptions THEN "done"
                                  ELSE "ttl_live",
                        ![t].result =
                           IF status \in Exceptions
                           THEN [NoRet EXCEPT !.op = "ttl", !.event = i,
                                               !.exc = status]
                           ELSE NoRet]
       /\ UNCHANGED <<schedule_config, now, ret, last_status, _cache>>

\* line 146: is_live, live_session = self._is_live_session(event)
TTLLive(t) ==
    /\ threads[t].pc = "ttl_live"
    /\ threads' = [threads EXCEPT
                     ![frame_of(t)].locals.live =
                         _is_live_session(schedule_config[threads[t].event], now),
                     ![t].clocks = Append(@, now),
                     ![t].pc = "ttl_return"]
    /\ UNCHANGED <<schedule_config, now, ret, last_status, _cache>>

\* lines 148-173: the value is chosen from the locals status, is_live and
\* live_session; the upcoming branch reads the clock once more
TTLReturn(t) ==
    LET event == schedule_config[threads[t].event]
        status == locals_of(t).status
        live == locals_of(t).live
        reads_clock == ~live.is_live /\ status = "upcoming"
                       /\ _parse_session_time(event.sessions["race"],
                                               event.timezone).some
        ttl == IF live.is_live THEN live_ttl(live.name)
               ELSE IF status = "current" THEN 60
               ELSE IF status = "upcoming"
                    THEN upcoming_ttl(
                           _parse_session_time(event.sessions["race"],
                                               event.timezone), now)
               ELSE 86400
    IN /\ threads[t].pc = "ttl_return"
       /\ threads' = [threads EXCEPT
                        ![t].clocks = IF reads_clock THEN Append(@, now) ELSE @,
                        ![t].pc = "done",
                        ![t].result = [NoRet EXCEPT !.op = "ttl",
                                         !.event = threads[t].event,
                                         !.ttl = ttl]]
       /\ UNCHANGED <<schedule_config, now, ret, last_status, _cache>>

\* the caller has taken the result and the frame of the call is gone; the
\* thread serves the next request
Deliver(t) ==
    /\ threads[t].pc = "done"
    /\ threads' = [threads EXCEPT ![t] = IdleThread]
    /\ UNCHANGED <<schedule_config, now, ret, last_status, _cache>>

NextThreads ==
    \/ ClockAdvance
    \/ \E t \in Threads, i \in DOMAIN schedule_config :
          \/ \E method \in {"status", "live", "next"} : EnterResolver(t, method, i)
          \/ TTLStatus(t, i)
    \/ \E t \in Threads : ReturnResolver(t)
    \/ \E t \in Threads : TTLLive(t)
    \/ \E t \in Threads : TTLReturn(t)
    \/ \E t \in Threads : Deliver(t)

SpecThreads == InitThreads /\ [][NextThreads]_vars

\* the n-th clock reading of a call, the last one where it took fewer
ClockAt(clocks, n) == IF n <= Len(clocks) THEN clocks[n] ELSE clocks[Len(clocks)]

\* What the method returns when it runs alone with the clock readings the
\* call has taken
AloneResult(method, i, clocks) ==
    LET event == schedule_config[i]
        status == _get_race_status_with_timing(event, clocks[1])
        live == _is_live_session(event, clocks[1])
        next == _get_next_session(event, clocks[1])
        r == _calculate_cache_ttl_with_timing(event, ClockAt(clocks, 1),
                                              ClockAt(clocks, 2), ClockAt(clocks, 3))
    IN IF method = "status"
       THEN [NoRet EXCEPT !.op = "status", !.event = i,
               !.exc = IF status \in Exceptions THEN status ELSE "none",
               !.status = IF status \in Exceptions THEN "" ELSE status]
       ELSE IF method = "live"
       THEN [NoRet EXCEPT !.op = "live", !.event = i,
               !.is_live = live.is_live, !.name = live.name]
       ELSE IF method = "next"
       THEN [NoRet EXCEPT !.op = "next", !.event = i,
               !.name = next.name, !.time = next.time]
       ELSE [NoRet EXCEPT !.op = "ttl", !.event = i, !.exc = r.exc, !.ttl = r.ttl]

\* the calls in progress
InProgress(t) == threads[t].pc \notin {"idle", "done"}

\* C17: whatever other threads call in the meantime, a resolver call
\* returns what the method returns when it runs alone with the same
\* readings of the clock.
C17_ConcurrentAsAlone ==
    \A t \in Threads :
       threads[t].pc = "done" =>
          threads[t].result =
             AloneResult(threads[t].method, threads[t].event, threads[t].clocks)

\* C17 witness: a status call that read the clock during qualifying has
\* returned current while another thread, which entered after the clock
\* had moved on, is in the middle of its own call.
C17_Witness ==
    \E t \in Threads, u \in Threads :
       /\ t # u
       /\ threads[t].pc = "done" /\ threads[t].method = "status"
       /\ threads[t].result.status = "current"
       /\ InProgress(u)
       /\ threads[u].clocks[1] > threads[t].clocks[1]

(***************************************************************************)
(* get_driver_ranking of f1_api_client.py                                  *)
(***************************************************************************)
\* A str is the sequence of its characters.
ascii_uppercase == <<"A", "B", "C", "D", "E", "F", "G", "H", "I", "J", "K", "L", "M", "N", "O", "P", "Q", "R", "S", "T", "U", "V", "W", "X", "Y", "Z">>
ascii_lowercase == <<"a", "b", "c", "d", "e", "f", "g", "h", "i", "j", "k", "l", "m", "n", "o", "p", "q", "r", "s", "t", "u", "v", "w", "x", "y", "z">>

\* str.lower()
lower(str) ==
    [n \in DOMAIN str |->
        IF \E c \in DOMAIN ascii_uppercase : ascii_uppercase[c] = str[n]
        THEN ascii_lowercase[CHOOSE c \in DOMAIN ascii_uppercase :
                                ascii_uppercase[c] = str[n]]
        ELSE str[n]]

\* str.strip(): the string without the blanks at its two ends
RECURSIVE strip(_)
strip(str) ==
    IF str = <<>> THEN str
    ELSE IF Head(str) = " " THEN strip(Tail(str))
    ELSE IF str[Len(str)] = " " THEN strip(SubSeq(str, 1, Len(str) - 1))
    ELSE str

\* a in b for two strings
contains(b, a) ==
    \E n \in 0..(Len(b) - Len(a)) : SubSeq(b, n + 1, n + Len(a)) = a

\* f1_client.current_context, lines 31-50: a list of dicts with four keys
current_context ==
    [final_standings_2024 |->
       << [position |-> 1, driver |-> "Max Verstappen", team |-> "Red Bull Racing", points |-> 437],
          [position |-> 2, driver |-> "Lando Norris", team |-> "McLaren", points |-> 374],
          [position |-> 3, driver |-> "Charles Leclerc", team |-> "Ferrari", points |-> 356],
          [position |-> 4, driver |-> "Oscar Piastri", team |-> "McLaren", points |-> 292],
          [position |-> 5, driver |-> "Carlos Sainz", team |-> "Williams", points |-> 290] >>]

\* the message of lines 445 and 454
not_found(driver_name) == [kind |-> "not found", driver_name |-> driver_name]

\* Lines 440-445 and 449-454: the search of the cached standings.  The
\* loop unpacks every item of the list into the two names key and
\* driver_info; an item is a dict, so it is unpacked into its keys, which
\* raises ValueError unless there are exactly two of them, and with two the
\* subscript driver_info["driver"] of a str raises TypeError.
cached_ranking(driver_name) ==
    LET standings == current_context.final_standings_2024
    IN IF standings = <<>>
       THEN [exc |-> "none", value |-> not_found(driver_name)]
       ELSE IF Cardinality(DOMAIN standings[1]) # 2
       THEN [exc |-> "ValueError", value |-> <<>>]
       ELSE [exc |-> "TypeError", value |-> <<>>]

\* line 422-429: does driver_data match the key
matches(driver_key, driver_data) ==
    LET full_name == lower(driver_data.givenName \o <<" ">> \o driver_data.familyName)
        family_name == lower(driver_data.familyName)
    IN \/ contains(full_name, driver_key)
       \/ contains(family_name, driver_key)
       \/ driver_key = lower(driver_data.code)

\* lines 431-436: the ranking text of the first matching driver
ranking(driver_data) ==
    [kind |-> "ranking",
     name |-> driver_data.givenName \o <<" ">> \o driver_data.familyName,
     position |-> driver_data.position, points |-> driver_data.points,
     team |-> driver_data.team]

\* Lines 408-445, the body of try.  The response of the API is
\* [kind, StandingsLists]: kind "failure" when requests.get or
\* raise_for_status raises, "list" when the JSON is not an object (data.get
\* raises AttributeError), "object" otherwise, StandingsLists being what
\* the chain of get calls of line 414 finds.
try_body(driver_name, response) ==
    IF response.kind = "failure" THEN [exc |-> "RequestException", value |-> <<>>]
    ELSE IF response.kind = "list" THEN [exc |-> "AttributeError", value |-> <<>>]
    ELSE LET standings == response.StandingsLists
             driver_key == strip(lower(driver_name))
             found == IF standings = <<>> THEN {}
                      ELSE {n \in DOMAIN standings[1] :
                               matches(driver_key, standings[1][n])}
         IN IF found # {}
            THEN [exc |-> "none",
                  value |-> ranking(standings[1][CHOOSE n \in found :
                                                    \A m \in found : n <= m])]
            ELSE cached_ranking(driver_name)

\* lines 404-454: [exc, value], exc being the exception that leaves the
\* function
get_driver_ranking(driver_name, response) ==
    LET r == try_body(driver_name, response)
    IN IF r.exc = "none" THEN r
       ELSE cached_ranking(driver_name)       \* the except clause

\* The drivers the API reports
DriverData ==
    { [givenName |-> <<"M", "a", "x">>, familyName |-> <<"V", "e", "r", "s", "t", "a", "p", "p", "e", "n">>, code |-> <<"V", "E", "R">>,
       position |-> "1", points |-> "255", team |-> "Red Bull"],
      [givenName |-> <<"L", "a", "n", "d", "o">>, familyName |-> <<"N", "o", "r", "r", "i", "s">>, code |-> <<"N", "O", "R">>,
       position |-> "2", points |-> "234", team |-> "McLaren"],
      [givenName |-> <<"C", "a", "r", "l", "o", "s">>, familyName |-> <<"S", "a", "i", "n", "z">>, code |-> <<"S", "A", "I">>,
       position |-> "3", points |-> "150", team |-> "Williams"] }

\* the longest DriverStandings list of a response
MaxStandings == 2

\* The responses of the API
Responses ==
    {[kind |-> "failure", StandingsLists |-> <<>>],
     [kind |-> "list", StandingsLists |-> <<>>],
     [kind |-> "object", StandingsLists |-> <<>>]}
    \cup {[kind |-> "object", StandingsLists |-> <<l>>] :
             l \in UNION {[1..n -> DriverData] : n \in 0..MaxStandings}}

\* The names asked for
DriverNames ==
    {<<"M", "a", "x">>, <<" ", "n", "o", "r", "r", "i", "s", " ">>, <<"V", "E", "R">>, <<"P", "e", "r", "e", "z">>, <<"S", "a", "i", "n", "z">>, <<"L", "a", "n", "d", "o", " ", "N", "o", "r", "r", "i", "s">>, <<"l", "e", "c", "l", "e", "r", "c">>}

InitRanking ==
    /\ schedule_config = <<>>
    /\ now \in ThreadInstants
    /\ ret = NoRet
    /\ last_status = [i \in DOMAIN schedule_config |-> "none"]
    /\ threads = NoThreads
    /\ _cache = <<>>

\* main.py, lines 62-68: get_driver_ranking_tool hands the call on
GetDriverRanking ==
    \E driver_name \in DriverNames, response \in Responses :
       LET r == get_driver_ranking(driver_name, response)
       IN /\ ret' = [NoRet EXCEPT !.op = "driver_ranking", !.exc = r.exc,
                        !.value = [driver_name |-> driver_name,
                                   response |-> response,
                                   returned |-> r.value]]
          /\ UNCHANGED <<schedule_config, now, last_status, threads, _cache>>

NextRanking == GetDriverRanking

SpecRanking == InitRanking /\ [][NextRanking]_vars

\* C20: for every driver name and every outcome of the API request,
\* get_driver_ranking returns a string, a ranking or the not-found
\* message, and raises nothing.
C20_AlwaysString ==
    ret.op = "driver_ranking" =>
       /\ ret.exc = "none"
       /\ ret.value.returned.kind \in {"ranking", "not found"}

(***************************************************************************)
(* F1APIClient of f1_api_client.py: _make_request and its cache            *)
(***************************************************************************)
\* f1_api_client.py, line 20
_cache_timeout == 300

\* A JSON value is [type, len]; None is Python's None.
PyNone == [type |-> "NoneType", len |-> 0]
JsonData ==
    {[type |-> "list", len |-> 2], [type |-> "list", len |-> 0],
     [type |-> "dict", len |-> 1]}

\* A test that counts every value but None as data
truthy_not_none(value) == value.type # "NoneType"

\* bool(value): None and the empty containers are false
truthy(value) == value.type # "NoneType" /\ value.len > 0

\* The params argument: None (the default) or a dict, a set of key-value
\* pairs
NoParams == [some |-> FALSE, dict |-> {}]

\* The requests the client makes for the standings (lines 77-78 and 91-93),
\* and the first of them with an empty dict for params
Requests ==
    {[url |-> "https://api.f1api.dev/v1/drivers", params |-> NoParams],
     [url |-> "https://api.f1api.dev/v1/drivers", params |-> [some |-> TRUE, dict |-> {}]],
     [url |-> "https://api.openf1.org/v1/drivers",
      params |-> [some |-> TRUE, dict |-> {<<"session_key", "latest">>}]]}

\* line 54: f"{url}_{json.dumps(params or {}, sort_keys=True)}"
cache_key(url, params) ==
    [url |-> url, json |-> IF params.some /\ params.dict # {} THEN params.dict ELSE {}]

\* An entry that is still used when it is exactly _cache_timeout old
cache_fresh_inclusive(cache, key, clock) ==
    key \in DOMAIN cache /\ clock - cache[key].cached_time <= _cache_timeout

\* lines 57-59
cache_fresh(cache, key, clock) ==
    key \in DOMAIN cache /\ clock - cache[key].cached_time < _cache_timeout

\* What the network gives: requests.get raises, or there is a response
\* with a status code whose json() raises or gives data.
Outcomes ==
    {[raises |-> "get", status_code |-> 0, data |-> PyNone],
     [raises |-> "json", status_code |-> 200, data |-> PyNone],
     [raises |-> "none", status_code |-> 404, data |-> PyNone],
     [raises |-> "none", status_code |-> 500, data |-> PyNone]}
    \cup {[raises |-> "none", status_code |-> 200, data |-> d] : d \in JsonData}

\* line 64-65: the response is stored
stores(outcome) == outcome.raises = "none" /\ outcome.status_code = 200

\* A failed refresh answered with what the cache still holds
failed_request_stale(cache, key) ==
    IF key \in DOMAIN cache THEN cache[key].data ELSE PyNone

\* lines 68-71: the exception is printed, the call returns None
failed_request(cache, key) == PyNone

\* Lines 52-71.  check_clock is the reading of line 59, store_clock the one
\* of line 66, taken when the response has arrived.  The result is the
\* data returned, the cache afterwards and whether a request was issued.
_make_request(cache, url, params, check_clock, outcome, store_clock) ==
    LET key == cache_key(url, params)
    IN IF cache_fresh(cache, key, check_clock)
       THEN [data |-> cache[key].data, cache |-> cache, requested |-> FALSE]
       ELSE IF stores(outcome)
       THEN [data |-> outcome.data,
             cache |-> (key :> [cached_time |-> store_clock,
                                data |-> outcome.data]) @@ cache,
             requested |-> TRUE]
       ELSE [data |-> failed_request(cache, key), cache |-> cache,
             requested |-> TRUE]

\* the texts of lines 82, 97 and 102
standings_text(kind, drivers) == [kind |-> kind, lines |-> 1 + drivers]

\* Lines 73-102: [text, cache, queries, answers, clock]; queries lists the
\* keys _make_request was called for and answers what the calls returned,
\* clock is the clock after the calls.
\* first and second are the outcomes and arrival times of the requests
\* the two calls issue if they issue one.
get_current_season_standings(cache, clock, first, second) ==
    LET r1 == _make_request(cache, "https://api.f1api.dev/v1/drivers", NoParams,
                            clock, first.outcome, first.arrival)
        clock1 == IF r1.requested THEN first.arrival ELSE clock
        current_data == r1.data
        r2 == _make_request(r1.cache, "https://api.openf1.org/v1/drivers",
                            [some |-> TRUE, dict |-> {<<"session_key", "latest">>}],
                            clock1, second.outcome, second.arrival)
        clock2 == IF r2.requested THEN second.arrival ELSE clock1
        openf1_data == r2.data
        key1 == cache_key("https://api.f1api.dev/v1/drivers", NoParams)
        key2 == cache_key("https://api.openf1.org/v1/drivers",
                          [some |-> TRUE, dict |-> {<<"session_key", "latest">>}])
    IN IF truthy(current_data) /\ current_data.type = "list" /\ current_data.len > 0
       THEN [text |-> standings_text("2025",
                         IF current_data.len < 8 THEN current_data.len ELSE 8),
             cache |-> r1.cache, queries |-> <<key1>>,
             answers |-> <<current_data>>, clock |-> clock1]
       ELSE IF truthy(openf1_data)
       THEN [text |-> standings_text("2024",
                         Len(current_context.final_standings_2024)),
             cache |-> r2.cache, queries |-> <<key1, key2>>,
             answers |-> <<current_data, openf1_data>>, clock |-> clock2]
       ELSE [text |-> standings_text("ultimate fallback", 2),
             cache |-> r2.cache, queries |-> <<key1, key2>>,
             answers |-> <<current_data, openf1_data>>, clock |-> clock2]

\* The readings of the client's clock: seconds after 2025-07-06T14:00:00
ClientInstants ==
    {timedelta(RaceDay, 14, 0) + d : d \in {0, 299, 300, 301}}

\* the instants at which a request issued at clock can have its answer
Arrivals(clock) ==
    {t \in ClientInstants :
        /\ t >= clock
        /\ \A u \in ClientInstants : u > clock => t <= u}

InitClient ==
    /\ schedule_config = <<>>
    /\ now \in ClientInstants
    /\ ret = NoRet
    /\ last_status = [i \in DOMAIN schedule_config |-> "none"]
    /\ threads = NoThreads
    /\ _cache = <<>>

\* datetime.now() moves on between two calls
ClientTick ==
    /\ \E t \in ClientInstants :
         /\ t > now
         /\ \A u \in ClientInstants : u > now => t <= u
         /\ now' = t
    /\ ret' = NoRet
    /\ UNCHANGED <<schedule_config, last_status, threads, _cache>>

\* a call of _make_request(url, params)
MakeRequest ==
    \E request \in Requests, outcome \in Outcomes,
       store_clock \in Arrivals(now) :
       LET r == _make_request(_cache, request.url, request.params, now,
                              outcome, store_clock)
       IN /\ ret' = [NoRet EXCEPT !.op = "make_request",
                        !.value = [cache_key |-> cache_key(request.url, request.params),
                                   data |-> r.data, requested |-> r.requested,
                                   ok |-> r.requested /\ stores(outcome)]]
          /\ _cache' = r.cache
          /\ now' = IF r.requested THEN store_clock ELSE now
          /\ UNCHANGED <<schedule_config, last_status, threads>>

\* a call of get_current_season_standings()
GetCurrentSeasonStandings ==
    \E o1 \in Outcomes, o2 \in Outcomes, a1 \in Arrivals(now) :
       \E a2 \in Arrivals(a1) :
          LET r == get_current_season_standings(_cache, now,
                      [outcome |-> o1, arrival |-> a1],
                      [outcome |-> o2, arrival |-> a2])
          IN /\ ret' = [NoRet EXCEPT !.op = "season_standings",
                           !.value = [text |-> r.text, queries |-> r.queries,
                                      answers |-> r.answers]]
             /\ _cache' = r.cache
             /\ now' = r.clock
             /\ UNCHANGED <<schedule_config, last_status, threads>>

NextClient == ClientTick \/ MakeRequest \/ GetCurrentSeasonStandings

SpecClient == InitClient /\ [][NextClient]_vars

\* the age of the entry a call finds in the cache
EntryAge(key) == now - _cache[key].cached_time

\* C21: a call of _make_request whose key has an entry stored less than
\* 300 seconds ago returns the stored data and issues no request; when the
\* entry is 300 seconds old or older the call issues a request.
C21_CacheWindow ==
    [][ret'.op = "make_request" =>
         LET key == ret'.value.cache_key
         IN key \in DOMAIN _cache =>
              /\ EntryAge(key) < 300 =>
                    /\ ~ret'.value.requested
                    /\ ret'.value.data = _cache[key].data
                    /\ _cache' = _cache
              /\ EntryAge(key) >= 300 => ret'.value.requested]_vars

\* C21 witness: a call was answered from an entry that is 299 seconds old.
C21_Witness ==
    /\ ret.op = "make_request" /\ ~ret.value.requested
    /\ ret.value.cache_key \in DOMAIN _cache
    /\ EntryAge(ret.value.cache_key) = 299
    /\ ret.value.data = _cache[ret.value.cache_key].data

\* C22: a call of _make_request whose request fails returns None and
\* leaves the cache as it was, also when the cache holds an expired entry
\* for the key; the cache changes only when the response has status 200.
C22_FailedRequest ==
    [][ret'.op = "make_request" =>
         /\ (ret'.value.requested /\ ~ret'.value.ok) =>
               (ret'.value.data = PyNone /\ _cache' = _cache)
         /\ _cache' # _cache => ret'.value.ok]_vars

\* C22 witness: a refresh of an expired entry has failed, the call has
\* returned None and the expired entry with its data is still in the cache.
C22_Witness ==
    /\ ret.op = "make_request" /\ ret.value.requested /\ ~ret.value.ok
    /\ ret.value.data = PyNone
    /\ ret.value.cache_key \in DOMAIN _cache
    /\ EntryAge(ret.value.cache_key) >= 300
    /\ _cache[ret.value.cache_key].data # PyNone

\* what the claim calls data of the primary and of the secondary source
NonEmptyList(value) == value.type = "list" /\ value.len > 0
GaveData(value) == value.type # "NoneType" /\ value.len > 0

PrimaryKey == [url |-> "https://api.f1api.dev/v1/drivers", json |-> {}]
SecondaryKey ==
    [url |-> "https://api.openf1.org/v1/drivers",
     json |-> {<<"session_key", "latest">>}]

ResolvedKinds(e) == {k \in DOMAIN e.sessions : Start(e, k).some}

\* every session of e ends no later than race start + 3 hours
EndsWithinWeekend(e) ==
    \A k \in ResolvedKinds(e) :
       Start(e, k).t + LiveDuration(k) <= Start(e, "race").t + 3 * 3600

\* practice1 and race resolve, no session starts before practice1 and
\* every session ends within the weekend
OrderedAfterPractice1(e) ==
    /\ Start(e, "practice1").some /\ Start(e, "race").some
    /\ \A k \in ResolvedKinds(e) : Start(e, k).t >= Start(e, "practice1").t
    /\ EndsWithinWeekend(e)

\* the race resolves, no session starts after it and every session ends
\* within the weekend
OrderedBeforeRace(e) ==
    /\ Start(e, "race").some
    /\ \A k \in ResolvedKinds(e) : Start(e, k).t <= Start(e, "race").t
    /\ EndsWithinWeekend(e)

\* C28: for an event whose sessions all lie between the practice1 start
\* and race start + 3 hours, a live session at now means that the status
\* at now is current, and a cache lifetime of 15 or 30 is returned only
\* when the status is current.
C28_LiveImpliesCurrent ==
    (ret.op \in {"live", "ttl"} /\ OrderedAfterPractice1(RetEvent)) =>
       /\ (ret.op = "live" /\ ret.is_live) =>
             _get_race_status_with_timing(RetEvent, now) = "current"
       /\ (ret.op = "ttl" /\ ret.exc = "none" /\ ret.ttl \in {15, 30}) =>
             _get_race_status_with_timing(RetEvent, now) = "current"

\* C28 witness: at the very start of practice1, the first session of the
\* weekend, the cache lifetime returned is 30 and the status is current.
C28_Witness ==
    /\ ret.op = "ttl" /\ ret.exc = "none" /\ ret.ttl = 30
    /\ OrderedAfterPractice1(RetEvent)
    /\ now = Start(RetEvent, "practice1").t
    /\ Start(RetEvent, "practice1").t < Start(RetEvent, "race").t
    /\ _get_race_status_with_timing(RetEvent, now) = "current"

\* C29: for an event whose sessions all start no later than the race and
\* end no later than race start + 3 hours, the status completed at now
\* means that no session is live at now and that there is no next session.
C29_CompletedIsOver ==
    (/\ ret.op \in {"live", "next"}
     /\ OrderedBeforeRace(RetEvent)
     /\ _get_race_status_with_timing(RetEvent, now) = "completed") =>
       /\ ret.op = "live" => (~ret.is_live /\ ret.name = "None")
       /\ ret.op = "next" => (ret.name = "None" /\ ~ret.time.some)

\* C29 witness: one second after race start + 3 hours the status is
\* completed and the live call answers that nothing is live.
C29_Witness ==
    /\ ret.op = "live" /\ ~ret.is_live
    /\ OrderedBeforeRace(RetEvent)
    /\ Cardinality(ResolvedKinds(RetEvent)) >= 2
    /\ now = Start(RetEvent, "race").t + 3 * 3600 + 1
    /\ _get_race_status_with_timing(RetEvent, now) = "completed"

(***************************************************************************)
(* get_next_race_info and get_current_race_info: the event selected       *)
(***************************************************************************)
\* the record is a copy of event i of the schedule with fields added
CopyOf(rec, i) ==
    /\ EventKeys \subseteq DOMAIN rec
    /\ \A k \in EventKeys : rec[k] = schedule_config[i][k]

\* the events whose race start resolves and is strictly after now
RacesAhead ==
    {i \in DOMAIN schedule_config :
        /\ Start(schedule_config[i], "race").some
        /\ Start(schedule_config[i], "race").t > now}

\* the events whose race start resolves and is less than 24 hours from now
RacesWithinDay ==
    {i \in DOMAIN schedule_config :
        LET race == Start(schedule_config[i], "race")
        IN /\ race.some
           /\ race.t - now < 24 * 3600
           /\ now - race.t < 24 * 3600}

\* the events whose status is completed
CompletedEvents ==
    {i \in DOMAIN schedule_config :
        _get_race_status_with_timing(schedule_config[i], now) = "completed"}

\* no event of the schedule makes the status call raise
AllStatusesResolve ==
    \A i \in DOMAIN schedule_config :
       _get_race_status_with_timing(schedule_config[i], now) \in Statuses

\* C24: get_next_race_info returns a copy of the first event whose race
\* start resolves and is strictly after now, with countdown_seconds the
\* seconds until that start and countdown_days the whole days in them, and
\* the empty record when there is no such event.
C24_NextRace ==
    ret.op = "next_race_info" =>
       /\ ret.exc = "none"
       /\ RacesAhead = {} => ret.value = <<>>
       /\ RacesAhead # {} =>
            LET i == Min(RacesAhead)
                seconds == Start(schedule_config[i], "race").t - now
            IN /\ CopyOf(ret.value, i)
               /\ ret.value["countdown_seconds"] = seconds
               /\ ret.value["countdown_days"] = seconds \div 86400

\* C25: get_current_race_info returns the first event whose race start is
\* less than 24 hours from now; when there is none, the last event whose
\* status is completed; when there is neither, the empty record.
C25_CurrentRace ==
    ret.op = "current_race_info" =>
       /\ ret.exc = "none"
       /\ RacesWithinDay # {} => CopyOf(ret.value, Min(RacesWithinDay))
       /\ (RacesWithinDay = {} /\ CompletedEvents # {}) =>
             CopyOf(ret.value, Max(CompletedEvents))
       /\ (RacesWithinDay = {} /\ CompletedEvents = {}) => ret.value = <<>>

\* C26: when some event of the schedule has a live session at now,
\* get_current_race_info returns such an event with is_live true and
\* live_session the name of its live session.  The statement is checked
\* for the schedules where no status call raises and for live events whose
\* race start resolves.
C26_LiveEventReturned ==
    (/\ ret.op = "current_race_info"
     /\ AllStatusesResolve
     /\ \E i \in DOMAIN schedule_config :
           /\ LiveKinds(schedule_config[i], now) # {}
           /\ Start(schedule_config[i], "race").some) =>
       /\ ret.exc = "none"
       /\ \E i \in DOMAIN schedule_config :
            /\ LiveKinds(schedule_config[i], now) # {}
            /\ CopyOf(ret.value, i)
            /\ "is_live" \in DOMAIN ret.value /\ ret.value["is_live"]
            /\ "live_session" \in DOMAIN ret.value
            /\ ret.value["live_session"] \in LiveKinds(schedule_config[i], now)

(***************************************************************************)
(* get_schedule_with_timing while the clock runs                           *)
(***************************************************************************)
\* The weekend of the race day in its three formats, alone in the schedule
RunningClockEvents ==
    {[date |-> [valid |-> TRUE, day |-> RaceDay], timezone |-> "Europe/London",
      sessions |-> SessionsOfWeekend(RaceDay, format)] :
        format \in {"full", "race only", "malformed race"}}

\* The clock readings: around the start of practice1 (11:30 UTC two days
\* before the race) and around race start + 3 hours (17:00 UTC)
RunningClockInstants ==
    {timedelta(RaceDay - 2, 11, 30) + j : j \in -1..1}
    \cup {timedelta(RaceDay, 17, 0) + j : j \in -1..1}

\* The six readings one record takes, in the order of lines 183, 186, 191
\* and 198 (which reads at lines 62, 101 and 166): none is earlier than
\* the one before it
ClockReadings(t) ==
    {c \in [{"status", "live", "next", "ttl_status", "ttl_live", "ttl_race"} ->
              {u \in RunningClockInstants : u >= t}] :
        /\ c.status <= c.live /\ c.live <= c.next /\ c.next <= c.ttl_status
        /\ c.ttl_status <= c.ttl_live /\ c.ttl_live <= c.ttl_race}

InitRunningClock ==
    /\ schedule_config \in {<<e>> : e \in RunningClockEvents}
    /\ now \in RunningClockInstants
    /\ ret = NoRet
    /\ last_status = [i \in DOMAIN schedule_config |-> "none"]
    /\ threads = NoThreads
    /\ _cache = <<>>

\* a call of get_schedule_with_timing during which the clock moves on
GetScheduleWhileClockRuns ==
    \E clocks \in ClockReadings(now) :
       LET r == get_schedule_with_timing(schedule_config, clocks)
       IN /\ ret' = [NoRet EXCEPT !.op = "schedule_with_timing",
                       !.exc = r.exc, !.value = r.value]
          /\ schedule_config' = r.store
          /\ now' = clocks.ttl_race
          /\ UNCHANGED <<last_status, threads, _cache>>

NextRunningClock == GetScheduleWhileClockRuns

SpecRunningClock == InitRunningClock /\ [][NextRunningClock]_vars

\* the values the decision table allows for the fields of a record
RecordTTLs(rec) ==
    IF rec["is_live"] /\ rec["live_session"] = "race" THEN {15}
    ELSE IF rec["is_live"] THEN {30}
    ELSE IF rec["status"] = "current" THEN {60}
    ELSE IF rec["status"] = "upcoming" THEN {300, 1800}
    ELSE {86400}

\* C27: in every record of get_schedule_with_timing, cache_ttl is the
\* decision-table value for the status, is_live and live_session of that
\* record, also when the clock moves on between the readings taken for the
\* record.
C27_TTLMatchesRecord ==
    (ret.op = "schedule_with_timing" /\ ret.exc = "none") =>
       \A i \in DOMAIN ret.value :
          ret.value[i]["cache_ttl"] \in RecordTTLs(ret.value[i])

====
